---- MODULE Spec2Model ----
(***************************************************************************)
(* Sidecar supervisor of app/src-tauri/src/lib.rs: the startup sequence    *)
(* spawn_sidecar (dev and release branches), the health poll task, the     *)
(* output drain task, the get_sidecar_port command and the RunEvent::Exit  *)
(* handler, together with the environment they act on (the sidecar         *)
(* process, listeners on the probed port).                                 *)
(***************************************************************************)
EXTENDS Integers, Sequences, FiniteSets, TLC

\* ---------------------------------------------------------------- bounds
NumEphemeral == 1     \* ports the OS may hand out to find_free_port
MaxRecords == 1       \* output records the sidecar writes before it ends
MaxExits == 2         \* RunEvent::Exit deliveries considered
MaxN == 4             \* largest max_attempts given to poll_health on its own

\* ------------------------------------------------------ program constants
DevPort == 9876       \* lib.rs:62
MaxAttempts == 30     \* lib.rs:73, lib.rs:127

\* ------------------------------------------------------------ value types
\* Option<T>: None is the empty sequence, Some(x) the one-element sequence.
None == <<>>
Some(x) == <<x>>
IsSome(o) == o # None
Unwrap(o) == o[1]

EphemeralPorts == {49152 + i : i \in 0..(NumEphemeral - 1)}
\* The CommandChild that spawn() returns; the program spawns at most one.
SidecarChild == "sidecar"
OutputKinds == {"Stdout", "Stderr", "Error"}

\* u16::to_string: the decimal digits of n, most significant first.
RECURSIVE to_string(_)
to_string(n) == IF n < 10 THEN <<n>> ELSE Append(to_string(n \div 10), n % 10)

VARIABLES
  mode,          \* cfg!(debug_assertions): "dev" or "prod"
  state,         \* Mutex<SidecarState> contents: [port, child]
  lock,          \* holder of the Mutex: "free", "setup", "exit"
  setupPc,       \* position of spawn_sidecar
  port_l,        \* spawn_sidecar's local `port` (0: not yet bound)
  child_l,       \* spawn_sidecar's local `child` from spawn()
  cmdArgs,       \* arguments of sidecar_command
  setupErr,      \* the failure spawn_sidecar logged, or "none"
  hostListeners, \* ports on which the host still holds a TcpListener
  proc,          \* sidecar process: [status, args]
  acceptor,      \* who accepts on the probed port: "none", "sidecar", "external"
  stream,        \* CommandEvents sent on rx so far, in arrival order
  drain,         \* drain task: [pc, head] (head: records received)
  probe,         \* health task: [pc, port, max_attempts, attempt, connects, sleeps, result]
  events,        \* payload ports of the "sidecar-ready" emits, in order
  exitH,         \* Exit handler: [pc, child, handled]
  kills,         \* handles on which kill() was called, in order
  hostAlive,     \* FALSE once the host process has ended
  queryResult    \* [asked, value]: the last value get_sidecar_port returned

vars == <<mode, state, lock, setupPc, port_l, child_l, cmdArgs, setupErr,
          hostListeners, proc, acceptor, stream, drain, probe, events, exitH,
          kills, hostAlive, queryResult>>

setupVars == <<setupPc, port_l, child_l, cmdArgs, setupErr, hostListeners>>
envVars == <<proc, acceptor, stream>>
exitVars == <<exitH, kills, hostAlive>>

\* ------------------------------------------------------------------ Init
\* run(): .manage(Mutex::new(SidecarState { port: 0, child: None }))
InitState == [port |-> 0, child |-> None]

Unasked == [asked |-> FALSE, value |-> None]
Answered(v) == [asked |-> TRUE, value |-> v]

NoProbe == [pc |-> "not_started", port |-> 0, max_attempts |-> 0, attempt |-> 0,
            connects |-> 0, sleeps |-> 0, result |-> None]

Init ==
  /\ mode \in {"dev", "prod"}
  /\ state = InitState
  /\ lock = "free"
  /\ setupPc = "start"
  /\ port_l = 0
  /\ child_l = None
  /\ cmdArgs = <<>>
  /\ setupErr = "none"
  /\ hostListeners = {}
  /\ proc = [status |-> "none", args |-> <<>>]
  /\ acceptor \in (IF mode = "dev" THEN {"none", "external"} ELSE {"none"})
  /\ stream = <<>>
  /\ drain = [pc |-> "not_started", head |-> 0]
  /\ probe = NoProbe
  /\ events = <<>>
  /\ exitH = [pc |-> "idle", child |-> None, handled |-> 0]
  /\ kills = <<>>
  /\ hostAlive = TRUE
  /\ queryResult = Unasked

\* ------------------------------------------------------- spawn_sidecar
\* poll_health(port, max_attempts) as the task enters it: `for attempt in
\* 1..=max_attempts` is empty for max_attempts = 0 and falls through to Err.
Timeout(n, port) == Some(<<"Timeout", n, port>>)
Ok == Some(<<"Ok">>)

poll_health_enter(port, n) ==
  IF n >= 1
  THEN [pc |-> "connect", port |-> port, max_attempts |-> n, attempt |-> 1,
        connects |-> 0, sleeps |-> 0, result |-> None]
  ELSE [pc |-> "returned", port |-> port, max_attempts |-> n, attempt |-> 0,
        connects |-> 0, sleeps |-> 0, result |-> Timeout(n, port)]

\* A dev build that spawns the health task without storing the port.
DevStore_Skipped(s, port) == s

\* lib.rs:60-68: dev build; `let port = 9876`, lock the state, `s.port = port`.
DevStore(s, port) == [s EXCEPT !.port = port]

SetupDevStore ==
  /\ hostAlive /\ mode = "dev" /\ setupPc = "start"
  /\ lock = "free"
  /\ port_l' = DevPort
  /\ state' = DevStore(state, DevPort)
  /\ lock' = "setup"
  /\ setupPc' = "dev_locked"
  /\ UNCHANGED <<mode, child_l, cmdArgs, setupErr, hostListeners, envVars, drain,
                 probe, events, exitVars, queryResult>>

\* lib.rs:68: the guard `s` goes out of scope.
SetupDevUnlock ==
  /\ hostAlive /\ setupPc = "dev_locked"
  /\ lock' = "free"
  /\ setupPc' = "dev_stored"
  /\ UNCHANGED <<mode, state, port_l, child_l, cmdArgs, setupErr, hostListeners,
                 envVars, drain, probe, events, exitVars, queryResult>>

\* lib.rs:70-79: spawn the health task on port 9876 with 30 attempts, return.
SetupDevSpawnProbe ==
  /\ hostAlive /\ setupPc = "dev_stored"
  /\ probe' = poll_health_enter(port_l, MaxAttempts)
  /\ setupPc' = "done"
  /\ UNCHANGED <<mode, state, lock, port_l, child_l, cmdArgs, setupErr,
                 hostListeners, envVars, drain, events, exitVars, queryResult>>

\* A release build that publishes the port as soon as it is allocated,
\* before the sidecar is launched.
SetupFindFreePort_StoresPort ==
  /\ hostAlive /\ mode = "prod" /\ setupPc = "start" /\ lock = "free"
  /\ \E p \in EphemeralPorts :
       /\ port_l' = p
       /\ state' = [state EXCEPT !.port = p]
       /\ setupPc' = "have_port"
  /\ UNCHANGED <<mode, lock, child_l, cmdArgs, setupErr, hostListeners, envVars,
                 drain, probe, events, exitVars, queryResult>>

\* An allocator that returns with its listener still bound.
find_free_port_ok_Leaks(held, p) ==
  [res |-> Some(p), err |-> "none", held |-> held \cup {p}]

\* lib.rs:22-30 find_free_port: bind 127.0.0.1:0, read local_addr().port();
\* the listener is dropped when the function returns, on every path.
\* held: the ports the host holds a listener on before the call.
find_free_port_ok(held, p) == [res |-> Some(p), err |-> "none", held |-> held]
find_free_port_bind_err(held) == [res |-> None, err |-> "BindError", held |-> held]
find_free_port_addr_err(held) == [res |-> None, err |-> "QueryError", held |-> held]

\* lib.rs:83-89: release build; Err(e) => log and return.
SetupFindFreePort ==
  /\ hostAlive /\ mode = "prod" /\ setupPc = "start"
  /\ \E r \in {find_free_port_ok(hostListeners, p) : p \in EphemeralPorts}
              \cup {find_free_port_bind_err(hostListeners),
                    find_free_port_addr_err(hostListeners)} :
       /\ hostListeners' = r.held
       /\ IF IsSome(r.res)
          THEN /\ port_l' = Unwrap(r.res)
               /\ setupPc' = "have_port"
               /\ UNCHANGED setupErr
          ELSE /\ setupErr' = r.err
               /\ setupPc' = "done"
               /\ UNCHANGED port_l
  /\ UNCHANGED <<mode, state, lock, child_l, cmdArgs, envVars, drain, probe,
                 events, exitVars, queryResult>>

\* A command that is always given the dev port.
sidecar_args_DevPort(port) == <<"--port", to_string(DevPort)>>

\* lib.rs:95-104: shell().sidecar(..) then .args(["--port", &port.to_string()]);
\* Err(e) => log and return.
sidecar_args(port) == <<"--port", to_string(port)>>

SetupCreateCommand ==
  /\ hostAlive /\ setupPc = "have_port"
  /\ \/ /\ cmdArgs' = sidecar_args(port_l)
        /\ setupPc' = "have_cmd"
        /\ UNCHANGED setupErr
     \/ /\ setupErr' = "CommandError"
        /\ setupPc' = "done"
        /\ UNCHANGED cmdArgs
  /\ UNCHANGED <<mode, state, lock, port_l, child_l, hostListeners, envVars,
                 drain, probe, events, exitVars, queryResult>>

\* A spawn whose Err arm falls through to the tasks instead of ending setup.
SetupSpawn_FallsThrough ==
  /\ hostAlive /\ setupPc = "have_cmd"
  /\ \/ /\ proc' = [status |-> "running", args |-> cmdArgs]
        /\ child_l' = Some(SidecarChild)
        /\ setupPc' = "spawned"
        /\ UNCHANGED setupErr
     \/ /\ setupErr' = "SpawnError"
        /\ setupPc' = "prod_stored"
        /\ UNCHANGED <<proc, child_l>>
  /\ UNCHANGED <<mode, state, lock, port_l, cmdArgs, hostListeners, acceptor,
                 stream, drain, probe, events, exitVars, queryResult>>

\* lib.rs:106-107, 137-139: sidecar_command.spawn(); Err(e) => log only.
SetupSpawn ==
  /\ hostAlive /\ setupPc = "have_cmd"
  /\ \/ /\ proc' = [status |-> "running", args |-> cmdArgs]
        /\ child_l' = Some(SidecarChild)
        /\ setupPc' = "spawned"
        /\ UNCHANGED setupErr
     \/ /\ setupErr' = "SpawnError"
        /\ setupPc' = "done"
        /\ UNCHANGED <<proc, child_l>>
  /\ UNCHANGED <<mode, state, lock, port_l, cmdArgs, hostListeners, acceptor,
                 stream, drain, probe, events, exitVars, queryResult>>

\* A store that publishes the port but drops the child.
ProdStore_NoChild(s, port, child) == [s EXCEPT !.port = port]

\* A store that keeps the child but forgets the port.
ProdStore_NoPort(s, port, child) == [s EXCEPT !.child = Some(child)]

\* lib.rs:112-116: lock the state, `s.port = port; s.child = Some(child)`.
ProdStore(s, port, child) == [s EXCEPT !.port = port, !.child = Some(child)]

SetupProdStore ==
  /\ hostAlive /\ setupPc = "spawned"
  /\ lock = "free"
  /\ state' = ProdStore(state, port_l, Unwrap(child_l))
  /\ child_l' = None
  /\ lock' = "setup"
  /\ setupPc' = "prod_locked"
  /\ UNCHANGED <<mode, port_l, cmdArgs, setupErr, hostListeners, envVars, drain,
                 probe, events, exitVars, queryResult>>

\* lib.rs:116: the guard `s` goes out of scope.
SetupProdUnlock ==
  /\ hostAlive /\ setupPc = "prod_locked"
  /\ lock' = "free"
  /\ setupPc' = "prod_stored"
  /\ UNCHANGED <<mode, state, port_l, child_l, cmdArgs, setupErr, hostListeners,
                 envVars, drain, probe, events, exitVars, queryResult>>

\* lib.rs:120-122: spawn the task that runs drain_sidecar_events(rx).
SetupSpawnDrain ==
  /\ hostAlive /\ setupPc = "prod_stored"
  /\ drain' = [pc |-> "running", head |-> 0]
  /\ setupPc' = "drain_spawned"
  /\ UNCHANGED <<mode, state, lock, port_l, child_l, cmdArgs, setupErr,
                 hostListeners, envVars, probe, events, exitVars, queryResult>>

\* lib.rs:125-135: spawn the health task on `port` with 30 attempts.
SetupSpawnProbe ==
  /\ hostAlive /\ setupPc = "drain_spawned"
  /\ probe' = poll_health_enter(port_l, MaxAttempts)
  /\ setupPc' = "done"
  /\ UNCHANGED <<mode, state, lock, port_l, child_l, cmdArgs, setupErr,
                 hostListeners, envVars, drain, events, exitVars, queryResult>>

\* A loop that notes a successful connect but returns only when it ends.
poll_health_connect_GoesOn(pr, connected) ==
  IF pr.attempt < pr.max_attempts
  THEN [pr EXCEPT !.connects = @ + 1, !.pc = "sleep",
                  !.result = IF connected THEN Ok ELSE @]
  ELSE [pr EXCEPT !.connects = @ + 1, !.pc = "returned",
                  !.result = IF connected \/ pr.result = Ok THEN Ok
                             ELSE Timeout(pr.max_attempts, pr.port)]

\* A loop that also sleeps after the final attempt (`attempt <= max_attempts`).
poll_health_connect_SleepsLast(pr, connected) ==
  IF connected
  THEN [pr EXCEPT !.connects = @ + 1, !.pc = "returned", !.result = Ok]
  ELSE IF pr.attempt <= pr.max_attempts
  THEN [pr EXCEPT !.connects = @ + 1, !.pc = "sleep"]
  ELSE [pr EXCEPT !.connects = @ + 1, !.pc = "returned",
                  !.result = Timeout(pr.max_attempts, pr.port)]

\* ---------------------------------------------------------- poll_health
\* lib.rs:39-51: one TcpStream::connect of the loop. Ok(_) => return Ok(());
\* Err(_) => sleep when attempt < max_attempts, else the loop ends and
\* lib.rs:52-54 returns Err with max_attempts and port.
poll_health_connect(pr, connected) ==
  IF connected
  THEN [pr EXCEPT !.connects = @ + 1, !.pc = "returned", !.result = Ok]
  ELSE IF pr.attempt < pr.max_attempts
  THEN [pr EXCEPT !.connects = @ + 1, !.pc = "sleep"]
  ELSE [pr EXCEPT !.connects = @ + 1, !.pc = "returned",
                  !.result = Timeout(pr.max_attempts, pr.port)]

\* lib.rs:47: sleep(200ms), then the next iteration of the loop.
poll_health_sleep(pr) ==
  [pr EXCEPT !.sleeps = @ + 1, !.attempt = @ + 1, !.pc = "connect"]

\* A connect to 127.0.0.1:port succeeds exactly when something accepts there.
ConnectSucceeds == acceptor # "none"

ProbeConnect ==
  /\ hostAlive /\ probe.pc = "connect"
  /\ probe' = poll_health_connect(probe, ConnectSucceeds)
  /\ UNCHANGED <<mode, state, lock, setupVars, envVars, drain, events, exitVars,
                 queryResult>>

ProbeSleep ==
  /\ hostAlive /\ probe.pc = "sleep"
  /\ probe' = poll_health_sleep(probe)
  /\ UNCHANGED <<mode, state, lock, setupVars, envVars, drain, events, exitVars,
                 queryResult>>

\* A task that polls again when poll_health timed out.
ProbeFinish_Reprobes ==
  /\ hostAlive /\ probe.pc = "returned"
  /\ events' = IF probe.result = Ok THEN Append(events, probe.port) ELSE events
  /\ probe' = IF probe.result = Ok THEN [probe EXCEPT !.pc = "done"]
              ELSE poll_health_enter(probe.port, probe.max_attempts)
  /\ UNCHANGED <<mode, state, lock, setupVars, envVars, drain, exitVars,
                 queryResult>>

\* A task that emits whatever poll_health returned.
emit_ready_Always(evs, result, port) == Append(evs, port)

\* A task that gives the sidecar up when the health poll fails: it takes the
\* child out of the state and kills it.
ProbeFinish_KillsOnFailure ==
  /\ hostAlive /\ probe.pc = "returned" /\ lock = "free"
  /\ events' = IF probe.result = Ok THEN Append(events, probe.port) ELSE events
  /\ probe' = [probe EXCEPT !.pc = "done"]
  /\ IF probe.result # Ok /\ IsSome(state.child)
     THEN /\ state' = [state EXCEPT !.child = None]
          /\ kills' = Append(kills, Unwrap(state.child))
     ELSE UNCHANGED <<state, kills>>
  /\ UNCHANGED <<mode, lock, setupVars, envVars, drain, exitH, hostAlive,
                 queryResult>>

\* lib.rs:73-77 and 127-134: after poll_health returns, emit "sidecar-ready"
\* with the task's `port` on Ok, log on Err.
emit_ready(evs, result, port) == IF result = Ok THEN Append(evs, port) ELSE evs

ProbeFinish ==
  /\ hostAlive /\ probe.pc = "returned"
  /\ events' = emit_ready(events, probe.result, probe.port)
  /\ probe' = [probe EXCEPT !.pc = "done"]
  /\ UNCHANGED <<mode, state, lock, setupVars, envVars, drain, exitVars,
                 queryResult>>

\* A drain loop that starts receiving only when the health task is over.
DrainRecv_WaitsForProbe ==
  /\ hostAlive /\ drain.pc = "running"
  /\ probe.pc = "done"
  /\ drain.head < Len(stream)
  /\ drain' = [pc |-> IF stream[drain.head + 1] = "Terminated" THEN "done" ELSE "running",
               head |-> drain.head + 1]
  /\ UNCHANGED <<mode, state, lock, setupVars, envVars, probe, events, exitVars,
                 queryResult>>

\* A drain loop that clears the stored child when it reads Terminated.
DrainRecv_ClearsChild ==
  /\ hostAlive /\ drain.pc = "running"
  /\ drain.head < Len(stream)
  /\ lock = "free"
  /\ drain' = [pc |-> IF stream[drain.head + 1] = "Terminated" THEN "done" ELSE "running",
               head |-> drain.head + 1]
  /\ state' = IF stream[drain.head + 1] = "Terminated"
              THEN [state EXCEPT !.child = None] ELSE state
  /\ UNCHANGED <<mode, lock, setupVars, envVars, probe, events, exitVars,
                 queryResult>>

\* ------------------------------------------------- drain_sidecar_events
\* A drain loop without the `break` on Terminated.
drain_recv_NoBreak(d, rec) == [pc |-> "running", head |-> d.head + 1]

\* lib.rs:145-159: rx.recv() yields the next record in arrival order;
\* Stdout and Stderr are logged, Terminated is logged and breaks the loop,
\* anything else is ignored.
drain_recv(d, rec) ==
  [pc |-> IF rec = "Terminated" THEN "done" ELSE "running", head |-> d.head + 1]

DrainRecv ==
  /\ hostAlive /\ drain.pc = "running"
  /\ drain.head < Len(stream)
  /\ drain' = drain_recv(drain, stream[drain.head + 1])
  /\ UNCHANGED <<mode, state, lock, setupVars, envVars, probe, events, exitVars,
                 queryResult>>

\* A query without the `filter(|&p| p != 0)`.
get_sidecar_port_Unfiltered(s) == Some(s.port)

\* ------------------------------------------------------ get_sidecar_port
\* lib.rs:164-166: state.lock().ok().map(|s| s.port).filter(|&p| p != 0)
get_sidecar_port(s) == IF s.port # 0 THEN Some(s.port) ELSE None

GetSidecarPort ==
  /\ hostAlive /\ lock = "free"
  /\ queryResult' = Answered(get_sidecar_port(state))
  /\ UNCHANGED <<mode, state, lock, setupVars, envVars, drain, probe, events,
                 exitVars>>

\* A handler that reads the child without emptying the slot.
take_Peek(o) == [taken |-> o, left |-> o]

\* --------------------------------------------------- RunEvent::Exit handler
\* Option::take: the value taken and what is left in the slot.
take(o) == [taken |-> o, left |-> None]

\* A handler that takes the whole state and leaves the initial one behind.
ExitTake_ResetsState ==
  /\ hostAlive /\ setupPc = "done"
  /\ exitH.pc = "idle" /\ exitH.handled < MaxExits
  /\ lock = "free"
  /\ state' = InitState
  /\ exitH' = [exitH EXCEPT !.pc = "locked", !.child = state.child]
  /\ lock' = "exit"
  /\ UNCHANGED <<mode, setupVars, envVars, drain, probe, events, kills, hostAlive,
                 queryResult>>

\* lib.rs:191-194: on RunEvent::Exit lock the state and `s.child.take()`.
\* The run loop starts after setup, so no Exit is handled before it is over.
ExitTake ==
  /\ hostAlive /\ setupPc = "done"
  /\ exitH.pc = "idle" /\ exitH.handled < MaxExits
  /\ lock = "free"
  /\ state' = [state EXCEPT !.child = take(state.child).left]
  /\ exitH' = [exitH EXCEPT !.pc = "locked", !.child = take(state.child).taken]
  /\ lock' = "exit"
  /\ UNCHANGED <<mode, setupVars, envVars, drain, probe, events, kills, hostAlive,
                 queryResult>>

\* A handler that keeps the guard alive until after kill().
ExitUnlock_KeepsLock ==
  /\ hostAlive /\ exitH.pc = "locked"
  /\ exitH' = [exitH EXCEPT !.pc = "taken"]
  /\ UNCHANGED <<mode, state, lock, setupVars, envVars, drain, probe, events,
                 kills, hostAlive, queryResult>>

\* lib.rs:194-195: the guard is dropped at the end of the closure.
ExitUnlock ==
  /\ hostAlive /\ exitH.pc = "locked"
  /\ lock' = "free"
  /\ exitH' = [exitH EXCEPT !.pc = "taken"]
  /\ UNCHANGED <<mode, state, setupVars, envVars, drain, probe, events, kills,
                 hostAlive, queryResult>>

\* The process after kill(): a running one ends (its Terminated record is
\* sent, its listener is gone) when the kill works; otherwise nothing changes.
Killed(pr) == [pr EXCEPT !.status = "exited"]
Released(a) == IF a = "sidecar" THEN "none" ELSE a

\* A handler that lets the health task finish before it kills the child.
ExitKill_WaitsForProbe ==
  /\ hostAlive /\ exitH.pc = "taken"
  /\ probe.pc \in {"not_started", "done"}
  /\ exitH' = [pc |-> "idle", child |-> None, handled |-> exitH.handled + 1]
  /\ IF IsSome(exitH.child)
     THEN /\ kills' = Append(kills, Unwrap(exitH.child))
          /\ \/ /\ proc.status = "running"
                /\ proc' = Killed(proc)
                /\ stream' = Append(stream, "Terminated")
                /\ acceptor' = Released(acceptor)
             \/ UNCHANGED <<proc, stream, acceptor>>
     ELSE UNCHANGED <<kills, proc, stream, acceptor>>
  /\ UNCHANGED <<mode, state, lock, setupVars, drain, probe, events, hostAlive,
                 queryResult>>

\* lib.rs:196-199: `if let Some(child) = child { let _ = child.kill(); }`.
\* kill() may fail; its result is dropped.
ExitKill ==
  /\ hostAlive /\ exitH.pc = "taken"
  /\ exitH' = [pc |-> "idle", child |-> None, handled |-> exitH.handled + 1]
  /\ IF IsSome(exitH.child)
     THEN /\ kills' = Append(kills, Unwrap(exitH.child))
          /\ \/ /\ proc.status = "running"
                /\ proc' = Killed(proc)
                /\ stream' = Append(stream, "Terminated")
                /\ acceptor' = Released(acceptor)
             \/ UNCHANGED <<proc, stream, acceptor>>
     ELSE UNCHANGED <<kills, proc, stream, acceptor>>
  /\ UNCHANGED <<mode, state, lock, setupVars, drain, probe, events, hostAlive,
                 queryResult>>

\* After the Exit handler has returned the host process ends, and with it
\* every task of the runtime.
HostEnd ==
  /\ hostAlive /\ exitH.pc = "idle" /\ exitH.handled >= 1
  /\ hostAlive' = FALSE
  /\ UNCHANGED <<mode, state, lock, setupVars, envVars, drain, probe, events,
                 exitH, kills, queryResult>>

\* ------------------------------------------------------------ environment
\* The spawned sidecar writes a line to stdout or stderr, or the plugin
\* reports an error record. Output still buffered when the process ends may
\* be sent on rx after its Terminated record.
produced == Cardinality({i \in 1..Len(stream) : stream[i] \in OutputKinds})

SidecarOutput ==
  /\ proc.status # "none" /\ produced < MaxRecords
  /\ \E k \in OutputKinds : stream' = Append(stream, k)
  /\ UNCHANGED <<mode, state, lock, setupVars, proc, acceptor, drain, probe,
                 events, exitVars, queryResult>>

\* The spawned sidecar binds the port it was given and accepts on it.
SidecarListen ==
  /\ proc.status = "running" /\ acceptor = "none"
  /\ acceptor' = "sidecar"
  /\ UNCHANGED <<mode, state, lock, setupVars, proc, stream, drain, probe,
                 events, exitVars, queryResult>>

\* The spawned sidecar ends on its own: Terminated is the last record.
SidecarExit ==
  /\ proc.status = "running"
  /\ proc' = Killed(proc)
  /\ stream' = Append(stream, "Terminated")
  /\ acceptor' = Released(acceptor)
  /\ UNCHANGED <<mode, state, lock, setupVars, drain, probe, events, exitVars,
                 queryResult>>

\* Another process (in a dev build: the externally run sidecar) starts or
\* stops accepting on the port; the host must hold no listener on it.
ExternalListen ==
  /\ mode = "dev" \/ port_l # 0
  /\ port_l \notin hostListeners
  /\ acceptor = "none"
  /\ acceptor' = "external"
  /\ UNCHANGED <<mode, state, lock, setupVars, proc, stream, drain, probe,
                 events, exitVars, queryResult>>

ExternalClose ==
  /\ acceptor = "external"
  /\ acceptor' = "none"
  /\ UNCHANGED <<mode, state, lock, setupVars, proc, stream, drain, probe,
                 events, exitVars, queryResult>>

\* ---------------------------------------------------------- specification
Next ==
  \/ SetupDevStore \/ SetupDevUnlock \/ SetupDevSpawnProbe
  \/ SetupFindFreePort \/ SetupCreateCommand \/ SetupSpawn
  \/ SetupProdStore \/ SetupProdUnlock \/ SetupSpawnDrain \/ SetupSpawnProbe
  \/ ProbeConnect \/ ProbeSleep \/ ProbeFinish
  \/ DrainRecv
  \/ GetSidecarPort
  \/ ExitTake \/ ExitUnlock \/ ExitKill \/ HostEnd
  \/ SidecarOutput \/ SidecarListen \/ SidecarExit
  \/ ExternalListen \/ ExternalClose

Spec == Init /\ [][Next]_vars

\* poll_health on its own: any port, any max_attempts up to MaxN, against a
\* listener that may come and go.
Ports == EphemeralPorts \cup {DevPort}

ProbeInit ==
  /\ mode \in {"dev", "prod"}
  /\ state = InitState
  /\ lock = "free"
  /\ setupPc = "done"
  /\ port_l \in Ports
  /\ child_l = None
  /\ cmdArgs = <<>>
  /\ setupErr = "none"
  /\ hostListeners = {}
  /\ proc = [status |-> "none", args |-> <<>>]
  /\ acceptor \in {"none", "external"}
  /\ stream = <<>>
  /\ drain = [pc |-> "not_started", head |-> 0]
  /\ \E n \in 0..MaxN : probe = poll_health_enter(port_l, n)
  /\ events = <<>>
  /\ exitH = [pc |-> "idle", child |-> None, handled |-> 0]
  /\ kills = <<>>
  /\ hostAlive = TRUE
  /\ queryResult = Unasked

ProbeNext == ProbeConnect \/ ProbeSleep \/ ExternalListen \/ ExternalClose

ProbeSpec == ProbeInit /\ [][ProbeNext]_vars

\* ============================================================ properties
Stored(p) == state.port = p /\ get_sidecar_port(state) = Some(p)
Emitting == events' # events
LastEvent == events[Len(events)]
ExitHasTaken == exitH.pc # "idle" \/ exitH.handled >= 1
SetupFailed == setupErr # "none"
ProbeTimedOut == probe.result = Timeout(probe.max_attempts, probe.port)

\* C1 as stated: at the emit of sidecar-ready with port P the state holds
\* port = P and, in a release build, the child handle of the launched
\* sidecar; a query at or after the event returns Some(P).
C1_Original ==
  [][Emitting => /\ Stored(events'[Len(events')])
                 /\ (mode = "prod" => state.child = Some(SidecarChild))]_vars

\* C1 amended: at the emit of sidecar-ready with port P the state holds
\* port = P, and in a release build the child handle was stored before: it
\* is still in the state unless an Exit handler has already taken it. From
\* the emit on the state keeps port P and every get_sidecar_port returns
\* Some(P).
C1_ReadinessOrdering ==
  /\ [][Emitting => /\ Stored(events'[Len(events')])
                    /\ (mode = "prod" =>
                          \/ state.child = Some(SidecarChild)
                          \/ ExitHasTaken /\ state.child = None)]_vars
  /\ [][(events # <<>> /\ GetSidecarPort) => queryResult' = Answered(Some(LastEvent))]_vars
  /\ [](events # <<>> => Stored(LastEvent))

C1_Witness ==
  /\ mode = "prod" /\ events # <<>>
  /\ state.child = Some(SidecarChild)
  /\ queryResult = Answered(Some(LastEvent))

\* C2: sidecar-ready is emitted at most once in a run; once the health task
\* is over it has been emitted exactly when poll_health returned Ok, and it
\* is never emitted before poll_health has returned.
C2_ReadyExactlyOnce ==
  /\ Len(events) <= 1
  /\ (probe.pc = "done" => (Len(events) = 1 <=> probe.result = Ok))
  /\ (probe.pc # "done" => events = <<>>)

C2_Witness == probe.pc = "done" /\ Len(events) = 1 /\ exitH.handled >= 1

\* C3: over any sequence of Exit events the first one empties the child slot
\* and kills the handle it took, if there was one; every later Exit finds
\* None, kills nothing and completes. kill() is called at most once, and
\* never on a handle that is still in the slot.
C3_TakeIdempotent ==
  /\ Len(kills) <= 1
  /\ (ExitHasTaken => state.child = None)
  /\ (exitH.handled >= 1 => exitH.child = None)
  /\ (exitH.handled >= 1 =>
        kills = IF proc.status # "none" THEN <<SidecarChild>> ELSE <<>>)
  /\ (kills # <<>> => state.child = None /\ exitH.child = None)

C3_Witness == exitH.handled = 2 /\ kills = <<SidecarChild>>

\* C4: in a release build, from the store after a successful spawn until the
\* first Exit the child handle stays in the state and kill() is not called,
\* whatever the health task does (pending, Ok or Timeout); the first Exit
\* handler calls kill() on that handle.
C4_KilledWhateverTheProbe ==
  /\ (proc.status # "none" /\ setupPc \notin {"spawned"} /\ ~ExitHasTaken
        => state.child = Some(SidecarChild) /\ kills = <<>>)
  /\ (proc.status # "none" /\ exitH.pc = "taken"
        => exitH.child = Some(SidecarChild) \/ exitH.handled >= 1)
  /\ (proc.status # "none" /\ exitH.handled >= 1 => kills = <<SidecarChild>>)

C4_Witness ==
  /\ probe.pc = "done" /\ ProbeTimedOut
  /\ exitH.handled >= 1 /\ kills = <<SidecarChild>>

\* C5 as stated: once the termination of the sidecar has been observed (the
\* drain loop has read Terminated) the child slot is None.
C5_Original == drain.pc = "done" => state.child = None

\* C5 amended: after a successful release launch the child slot goes from
\* Some to None at most once, and only when an Exit handler takes it; it is
\* filled only by the store of spawn_sidecar, before any Exit. Observed
\* termination leaves the handle in the slot, so the handle of a sidecar
\* that has already ended is still taken and killed by the first Exit.
C5_HandleClearedOnlyByExit ==
  /\ [][IsSome(state.child) /\ state'.child = None
          => exitH.pc = "idle" /\ exitH'.pc = "locked"
             /\ exitH'.child = state.child]_vars
  /\ [][state.child = None /\ IsSome(state'.child)
          => setupPc = "spawned" /\ ~ExitHasTaken]_vars
  /\ [](drain.pc = "done" /\ ~ExitHasTaken => state.child = Some(SidecarChild))
  /\ [](drain.pc = "done" /\ exitH.handled >= 1 => kills = <<SidecarChild>>)

C5_Witness ==
  /\ drain.pc = "done" /\ proc.status = "exited"
  /\ exitH.handled >= 1 /\ kills = <<SidecarChild>> /\ state.child = None

\* C6: when find_free_port, the creation of the sidecar command or the spawn
\* fails in a release build, setup is over and is not retried, no process
\* was launched, neither the drain task nor the health task is started, no
\* sidecar-ready is emitted, the state stays port = 0 / child = None,
\* get_sidecar_port returns None, and an Exit kills nothing.
C6_LaunchFailureTerminal ==
  SetupFailed =>
    /\ mode = "prod" /\ setupPc = "done"
    /\ proc.status = "none" /\ child_l = None
    /\ drain.pc = "not_started" /\ probe.pc = "not_started"
    /\ events = <<>>
    /\ state = InitState /\ get_sidecar_port(state) = None
    /\ queryResult.value = None
    /\ kills = <<>> /\ exitH.child = None

C6_Witness ==
  /\ setupErr = "SpawnError" /\ cmdArgs # <<>>
  /\ queryResult = Answered(None) /\ exitH.handled >= 1 /\ kills = <<>>

\* C7 as stated: after any failure of the startup sequence (BindError,
\* QueryError, SpawnError or ProbeTimeout) no sidecar-ready is emitted and
\* get_sidecar_port returns None.
C7_Original ==
  SetupFailed \/ ProbeTimedOut => events = <<>> /\ get_sidecar_port(state) = None

\* C7 amended: after any failure of the startup sequence the attempt halts
\* without retry and no sidecar-ready is emitted. After BindError, QueryError
\* or SpawnError get_sidecar_port returns None; after ProbeTimeout the port
\* stays assigned and get_sidecar_port returns Some of the probed port.
C7_FailureObservation ==
  /\ (SetupFailed =>
        /\ setupPc = "done" /\ probe.pc = "not_started"
        /\ events = <<>> /\ get_sidecar_port(state) = None)
  /\ (ProbeTimedOut =>
        /\ probe.pc \in {"returned", "done"}
        /\ probe.connects = probe.max_attempts
        /\ events = <<>> /\ get_sidecar_port(state) = Some(probe.port))

C7_Witness ==
  /\ ProbeTimedOut /\ probe.pc = "done" /\ mode = "prod"
  /\ queryResult = Answered(Some(probe.port))

\* C8: in a dev build nothing is allocated or launched and the child slot is
\* None in every state, so an Exit kills nothing; the port 9876 is in the
\* state before the health task starts, the task polls 9876 with 30
\* attempts, and when poll_health returned Ok the task has emitted exactly
\* sidecar-ready{port: 9876}.
C8_DevModeOwnsNoProcess ==
  mode = "dev" =>
    /\ state.child = None /\ child_l = None /\ exitH.child = None
    /\ proc.status = "none" /\ cmdArgs = <<>> /\ hostListeners = {}
    /\ kills = <<>> /\ drain.pc = "not_started"
    /\ port_l \in {0, DevPort} /\ state.port \in {0, DevPort}
    /\ (setupPc \notin {"start"} => state.port = DevPort)
    /\ (probe.pc # "not_started" =>
          /\ state.port = DevPort /\ probe.port = DevPort
          /\ probe.max_attempts = MaxAttempts
          /\ probe.connects <= MaxAttempts)
    /\ events = IF probe.pc = "done" /\ probe.result = Ok
                THEN <<DevPort>> ELSE <<>>

C8_Witness ==
  /\ mode = "dev" /\ events = <<DevPort>> /\ probe.connects > 1
  /\ exitH.handled >= 1

C10_ProbeFailurePath ==
  /\ [](probe.max_attempts >= 1 =>
          /\ probe.connects <= probe.max_attempts
          /\ (probe.pc = "connect" =>
                probe.connects = probe.attempt - 1 /\ probe.sleeps = probe.connects)
          /\ (probe.pc = "sleep" =>
                /\ probe.connects = probe.attempt
                /\ probe.sleeps = probe.connects - 1
                /\ probe.attempt < probe.max_attempts)
          /\ (probe.pc = "returned" /\ probe.result # Ok =>
                /\ probe.connects = probe.max_attempts
                /\ probe.sleeps = probe.max_attempts - 1
                /\ probe.result = Timeout(probe.max_attempts, probe.port)))
  /\ [][probe'.result = Ok /\ probe.result # Ok
          => probe.pc = "connect" /\ ConnectSucceeds]_vars

C10_Witness ==
  /\ probe.pc = "returned" /\ probe.max_attempts = MaxN
  /\ probe.result = Timeout(MaxN, port_l) /\ probe.sleeps = MaxN - 1

Received == SubSeq(stream, 1, drain.head)
TerminatedAt == {i \in 1..Len(stream) : stream[i] = "Terminated"}

C12_DrainStopsAtTerminated ==
  /\ drain.head <= Len(stream)
  /\ (drain.pc = "not_started" => drain.head = 0)
  /\ (drain.pc = "running" => \A i \in 1..drain.head : Received[i] # "Terminated")
  /\ (drain.pc = "done" =>
        /\ drain.head >= 1 /\ Received[drain.head] = "Terminated"
        /\ \A i \in TerminatedAt : i >= drain.head)

C12_Witness ==
  /\ drain.pc = "done" /\ Len(stream) > drain.head
  /\ stream[Len(stream)] \in OutputKinds

\* C13: the Exit handler always completes. Once it has taken the child it
\* can release the lock and run kill() in every state, whatever the health
\* task and the drain task are doing; kill() is called once and its failure
\* changes nothing for the handler: the handler returns, the host can end,
\* and kill() is not called again.
C13_ShutdownCompletes ==
  /\ (exitH.pc = "locked" => hostAlive /\ ENABLED ExitUnlock)
  /\ (exitH.pc = "taken" => hostAlive /\ ENABLED ExitKill)
  /\ (hostAlive /\ exitH.pc = "idle" /\ exitH.handled >= 1 => ENABLED HostEnd)
  /\ (exitH.handled >= 1 /\ proc.status = "running" => kills = <<SidecarChild>>)
  /\ Len(kills) <= exitH.handled

C13_Witness ==
  /\ ~hostAlive /\ exitH.handled = 1 /\ kills = <<SidecarChild>>
  /\ proc.status = "running" /\ probe.pc = "sleep" /\ drain.pc = "running"

\* C14: the health poll runs once in a run. After it has returned (Ok or
\* Timeout) no connect and no sleep is made and its result stays; after a
\* Timeout no sidecar-ready is emitted, the sidecar is not launched again
\* and a sidecar that has ended stays ended, also when a listener starts
\* accepting on the port afterwards.
ProbeOver == probe.pc \in {"returned", "done"}

C14_NoReprobeNoRestart ==
  /\ [][ProbeOver
          => /\ probe'.pc \in {"returned", "done"}
             /\ probe'.result = probe.result
             /\ probe'.connects = probe.connects
             /\ probe'.sleeps = probe.sleeps]_vars
  /\ [][ProbeTimedOut => events' = <<>> /\ setupPc' = setupPc]_vars
  /\ [][proc.status # "none"
          => proc'.args = proc.args /\ proc'.status # "none"
             /\ (proc.status = "exited" => proc'.status = "exited")]_vars
  /\ [](ProbeTimedOut => events = <<>> /\ probe.connects = probe.max_attempts)

C14_Witness ==
  /\ probe.pc = "done" /\ ProbeTimedOut /\ events = <<>>
  /\ acceptor = "sidecar" /\ ~ExitHasTaken

\* C15: the state is read and written only with the lock held, and the lock
\* is held only across the one read or write: it is held by spawn_sidecar
\* exactly between its store and the end of that block, by the Exit handler
\* exactly between its take and the end of that block, and by nobody else
\* (never by the health task or the drain task). No bind, spawn, connect,
\* sleep, receive, kill or emit happens in a state where its own thread
\* holds the lock; in particular the Exit handler has released the lock
\* when it calls kill().
C15_LockOnlyAroundAccess ==
  /\ [](lock \in {"free", "setup", "exit"})
  /\ [](lock = "setup" <=> setupPc \in {"dev_locked", "prod_locked"})
  /\ [](lock = "exit" <=> exitH.pc = "locked")
  /\ [](exitH.pc = "taken" => lock # "exit")
  /\ [][state' # state => lock = "free" /\ lock' \in {"setup", "exit"}]_vars
  /\ [][queryResult' # queryResult => lock = "free" /\ lock' = "free"]_vars
  /\ [][kills' # kills => lock # "exit" /\ lock' # "exit"]_vars
  /\ [][probe' # probe \/ drain' # drain \/ events' # events
          \/ hostListeners' # hostListeners \/ proc' # proc
          => lock' = lock]_vars

C15_Witness ==
  /\ exitH.pc = "taken" /\ exitH.child = Some(SidecarChild) /\ lock = "free"
  /\ probe.pc = "connect" /\ drain.pc = "running"

\* C16: the health task and the drain task do not block each other. While
\* the host runs, the health task can always take its next step (connect,
\* sleep, or finish with the emit or the log) whatever the drain task is
\* doing, and the drain task can always receive a record that is on rx
\* whatever the health task is doing.
ProbeCanStep ==
  \/ probe.pc = "connect" /\ ENABLED ProbeConnect
  \/ probe.pc = "sleep" /\ ENABLED ProbeSleep
  \/ probe.pc = "returned" /\ ENABLED ProbeFinish

C16_ProbeAndDrainIndependent ==
  /\ (hostAlive /\ probe.pc \in {"connect", "sleep", "returned"} => ProbeCanStep)
  /\ (hostAlive /\ drain.pc = "running" /\ drain.head < Len(stream)
        => ENABLED DrainRecv)
  /\ (drain.pc # "not_started" /\ mode = "prod" /\ setupPc = "done"
        => probe.pc # "not_started")

C16_Witness ==
  /\ hostAlive /\ probe.pc = "connect" /\ probe.connects >= 1
  /\ drain.pc = "running" /\ drain.head = 1 /\ Len(stream) = 2

\* C17: in a release build one port P is used throughout. The sidecar is
\* launched only after find_free_port returned P, with the arguments
\* "--port" and the decimal text of P; P and the child are in the state
\* only after the spawn succeeded, and before the drain task and the health
\* task are started; the health task polls P and a sidecar-ready carries P.
RECURSIVE DecimalValue(_)
DecimalValue(ds) ==
  IF ds = <<>> THEN 0
  ELSE 10 * DecimalValue(SubSeq(ds, 1, Len(ds) - 1)) + ds[Len(ds)]

ChildStoredOrTaken == state.child = Some(SidecarChild) \/ ExitHasTaken

C17_OnePortThroughout ==
  mode = "prod" =>
    /\ (cmdArgs # <<>> \/ proc.status # "none" => port_l \in EphemeralPorts)
    /\ (proc.status # "none" =>
          /\ proc.args = cmdArgs /\ Len(proc.args) = 2
          /\ proc.args[1] = "--port" /\ DecimalValue(proc.args[2]) = port_l)
    /\ (state # InitState =>
          /\ proc.status # "none" /\ state.port = port_l
          /\ setupPc \in {"prod_locked", "prod_stored", "drain_spawned", "done"})
    /\ (setupPc \in {"start", "have_port", "have_cmd", "spawned"} =>
          /\ state = InitState
          /\ drain.pc = "not_started" /\ probe.pc = "not_started")
    /\ (drain.pc # "not_started" \/ probe.pc # "not_started" =>
          state.port = port_l /\ ChildStoredOrTaken)
    /\ (probe.pc # "not_started" => probe.port = port_l /\ drain.pc # "not_started")
    /\ (events # <<>> => events = <<port_l>>)

C17_Witness ==
  /\ mode = "prod" /\ events = <<port_l>> /\ port_l = 49152
  /\ proc.args = <<"--port", <<4, 9, 1, 5, 2>>>>
  /\ state = [port |-> 49152, child |-> Some(SidecarChild)]

\* C18: find_free_port has released its listener when it returns, with a
\* port or with an error: in every state the host holds no listener, so
\* from the return on another process can bind the returned port, also
\* before the sidecar is launched or has bound it.
C18_ListenerReleased ==
  /\ hostListeners = {}
  /\ (mode = "prod" /\ port_l # 0 /\ acceptor = "none" => ENABLED ExternalListen)
  /\ (setupErr \in {"BindError", "QueryError"} => port_l = 0)

C18_Witness ==
  /\ mode = "prod" /\ setupPc = "have_port" /\ port_l \in EphemeralPorts
  /\ proc.status = "none" /\ acceptor = "external"

\* C19: port and child are written in one critical section of a release
\* build: a stored child implies a stored nonzero port (the allocated one),
\* and in a release build a stored port implies that the child is stored or
\* was taken by an Exit handler. No Exit is handled before setup is over,
\* so the first Exit after a successful launch finds the child and takes it.
C19_PortAndChildTogether ==
  /\ (IsSome(state.child) =>
        mode = "prod" /\ state.port # 0 /\ state.port = port_l
        /\ get_sidecar_port(state) = Some(port_l))
  /\ (mode = "prod" /\ state.port # 0 => ChildStoredOrTaken)
  /\ (ExitHasTaken => setupPc = "done")
  /\ (proc.status # "none" /\ setupPc = "done" /\ ~ExitHasTaken
        => state.child = Some(SidecarChild))
  /\ (proc.status # "none" /\ exitH.pc # "idle" /\ exitH.handled = 0
        => exitH.child = Some(SidecarChild))

C19_Witness ==
  /\ mode = "prod" /\ exitH.pc = "taken" /\ exitH.handled = 0
  /\ exitH.child = Some(SidecarChild) /\ state = [port |-> port_l, child |-> None]
  /\ probe.pc = "connect"

\* C20: a step of the Exit handler changes nothing of the state but the
\* child slot, which it empties: the stored port stays, get_sidecar_port
\* returns after the step what it returned before (still Some(P) after the
\* sidecar was killed), and the handler emits no sidecar-ready.
ExitStep == exitH' # exitH

C20_ShutdownFrame ==
  /\ [][ExitStep
          => /\ state' = [state EXCEPT !.child = None]
             /\ get_sidecar_port(state') = get_sidecar_port(state)
             /\ events' = events
             /\ queryResult' = queryResult]_vars
  /\ [](exitH.handled >= 1 /\ setupErr = "none"
          => get_sidecar_port(state) = Some(port_l))

C20_Witness ==
  /\ exitH.handled >= 1 /\ kills = <<SidecarChild>> /\ proc.status = "exited"
  /\ state = [port |-> port_l, child |-> None]
  /\ queryResult = Answered(Some(port_l)) /\ events = <<>>

====
